---- MODULE Spec2Model ----
(***************************************************************************)
(* Model of the receding-horizon controller of src/src/MPC.cpp: the layout *)
(* of the flattened decision vector, the cost/constraint evaluator         *)
(* FG_eval::operator(), and MPC::Solve (problem construction, the external *)
(* solver call, actuation extraction and state retention).                 *)
(*                                                                         *)
(* Numbers: a C++ double is modelled as a fixed-point integer counting     *)
(* hundredths (FP units per 1.0); the products and quotients of the code   *)
(* are rescaled and truncated toward zero.  A non-finite double is the     *)
(* reserved value NaN, which every arithmetic operator propagates.         *)
(* Vectors are functions on 0 .. n-1, indexed as in the source.            *)
(***************************************************************************)
EXTENDS Integers, Sequences, FiniteSets, TLC

VARIABLES
    params,                 \* the build's horizon: [N, dt] (lines 13-23)
    pc,                     \* position of the control loop in MPC::Solve
    steering_delta_,        \* MPC::steering_delta_, retained actuation
    a_,                     \* MPC::a_, retained actuation
    pred_path_x_,           \* MPC::pred_path_x_
    pred_path_y_,           \* MPC::pred_path_y_
    fresh,                  \* no Solve has returned yet on this controller
    state,                  \* argument `state` of the current/last Solve
    coeffs,                 \* argument `coeffs` of the current/last Solve
    vars,                   \* initial guess handed to the solver
    vars_lowerbound,
    vars_upperbound,
    constraints_lowerbound,
    constraints_upperbound,
    oob,                    \* indices >= n_vars that the bound loops wrote
    fg,                     \* last evaluation of FG_eval by the solver
    solution,               \* solve_result of the last solver call
    result,                 \* vector returned by the last Solve
    all_respected           \* every solver result so far respected the variable bounds

vars_all == <<params, pc, steering_delta_, a_, pred_path_x_, pred_path_y_, fresh,
              state, coeffs, vars, vars_lowerbound, vars_upperbound,
              constraints_lowerbound, constraints_upperbound, oob, fg,
              solution, result, all_respected>>

----------------------------------------------------------------------------
(* Bounds of the model (not program constants).                            *)

\* largest horizon of the configurations explored by SpecCfg
MaxN == 4
\* slope of the actuation ramps the modelled solver may return
RampStep == 3

----------------------------------------------------------------------------
(* Number representation.                                                  *)

\* fixed-point resolution: 1.0 is FP units
FP == 100
\* 1.0e19, the "unbounded" magnitude of lines 265-266
LARGE == 1000000000
\* a non-finite double (NaN/Inf) supplied by the caller
NaN == 2000000000

Quot(a, b) == IF a >= 0 THEN a \div b ELSE -((-a) \div b)

FAdd(a, b) == IF a = NaN \/ b = NaN THEN NaN ELSE a + b
FSub(a, b) == IF a = NaN \/ b = NaN THEN NaN ELSE a - b
FMul(a, b) == IF a = NaN \/ b = NaN THEN NaN ELSE Quot(a * b, FP)
FDiv(a, b) == IF a = NaN \/ b = NaN THEN NaN ELSE Quot(a * FP, b)

\* CppAD::pow(x, 2) and CppAD::pow(x, 3)
Pow2(a) == FMul(a, a)
Pow3(a) == FMul(FMul(a, a), a)

\* CppAD::sin, CppAD::cos, CppAD::atan: truncated series, exact at 0
Sin(a)  == IF a = NaN THEN NaN ELSE a - Quot(Pow3(a), 6)
Cos(a)  == IF a = NaN THEN NaN ELSE FP - Quot(Pow2(a), 2) + Quot(Pow2(Pow2(a)), 24)
Atan(a) == IF a = NaN THEN NaN ELSE a - Quot(Pow3(a), 3)

\* the running sum s[1] + ... + s[n], added left to right
RECURSIVE FSumTo(_, _)
FSumTo(s, n) == IF n = 0 THEN 0 ELSE FAdd(FSumTo(s, n - 1), s[n])
FSum(s) == FSumTo(s, Len(s))

----------------------------------------------------------------------------
(* Configuration: lines 8-88 (profile MPC_PARAMS_72MPH is the one built).  *)

N_72MPH  == 10
dt_72MPH == 5

N  == params.N
dt == params.dt

\* latency is 100ms
Latency == 10
\* static_cast<int>(0.1 / dt + 0.5)
num_states_in_latency == (2 * Latency + dt) \div (2 * dt)

Lf == 267
ref_cte == 0
ref_epsi == 0
ref_v == 7500
coeff_cte == 100
coeff_epsi == 100
coeff_v == 100
coeff_derivative_delta == 50000
coeff_derivative_a == 100
coeff_penalize_delta == 20000
coeff_penalize_a == 100

\* Utils::max_delta (0.436332 rad, 25 degrees)
max_delta == 44
\* acceleration limit 1.0
max_a == 100

----------------------------------------------------------------------------
(* Layout of the decision vector: lines 95-102, 239-241.                   *)

\* the acceleration block started one slot early
a_start_OneEarly == 6 * params.N + params.N - 2

x_start == 0
y_start == x_start + N
psi_start == y_start + N
v_start == psi_start + N
cte_start == v_start + N
epsi_start == cte_start + N
delta_start == epsi_start + N
a_start == delta_start + N - 1

n_vars == N * 6 + (N - 1) * 2
n_constraints == N * 6

StateBlocks == <<x_start, y_start, psi_start, v_start, cte_start, epsi_start>>

----------------------------------------------------------------------------
(* FG_eval::operator(): lines 115-200.                                     *)

\* vars[k]; a read outside the vector yields the stale value `junk`
Get(p, k, junk) == IF k \in DOMAIN p THEN p[k] ELSE junk

\* coeffs[k] (Eigen, 0-based); a read past the end yields `junk`
Coeff(c, k, junk) == IF k < Len(c) THEN c[k + 1] ELSE junk

\* Utils::poly3_derivative(coeffs, x): c1 + 2 c2 x + 3 c3 x^2
poly3_derivative(c, x, junk) ==
    FAdd(FAdd(Coeff(c, 1, junk), FMul(FMul(2 * FP, Coeff(c, 2, junk)), x)),
         FMul(FMul(3 * FP, Coeff(c, 3, junk)), Pow2(x)))

\* line 180
Poly3(c, x, junk) ==
    FAdd(FAdd(FAdd(Coeff(c, 0, junk), FMul(Coeff(c, 1, junk), x)),
              FMul(Coeff(c, 2, junk), Pow2(x))),
         FMul(Coeff(c, 3, junk), Pow3(x)))

\* the right-hand sides of lines 193-198
Pred_x(x0, psi0, v0) == FAdd(x0, FMul(FMul(v0, Cos(psi0)), dt))
Pred_y(y0, psi0, v0) == FAdd(y0, FMul(FMul(v0, Sin(psi0)), dt))
Pred_psi(psi0, v0, delta0) == FAdd(psi0, FMul(FDiv(FMul(v0, delta0), Lf), dt))
Pred_v(v0, a0) == FAdd(v0, FMul(a0, dt))
Pred_cte(f0, y0, v0, epsi0) == FAdd(FSub(f0, y0), FMul(FMul(v0, Sin(epsi0)), dt))
Pred_epsi(psi0, psides0, v0, delta0) ==
    FAdd(FSub(psi0, psides0), FMul(FDiv(FMul(v0, delta0), Lf), dt))

\* the reference cost without the speed term
ReferenceCost_NoSpeed(p) ==
    FSum([j \in 1 .. 2 * N |->
            LET i == (j - 1) \div 2
            IN  IF (j - 1) % 2 = 0
                THEN FMul(coeff_cte, Pow2(FSub(Get(p, cte_start + i, 0), ref_cte)))
                ELSE FMul(coeff_epsi, Pow2(FSub(Get(p, epsi_start + i, 0), ref_epsi)))])

\* lines 122-126: the part of the cost based on the reference state
ReferenceCost(p) ==
    FSum([j \in 1 .. 3 * N |->
            LET i == (j - 1) \div 3
                k == (j - 1) % 3
            IN  IF k = 0 THEN FMul(coeff_cte, Pow2(FSub(Get(p, cte_start + i, 0), ref_cte)))
                ELSE IF k = 1 THEN FMul(coeff_epsi, Pow2(FSub(Get(p, epsi_start + i, 0), ref_epsi)))
                ELSE FMul(coeff_v, Pow2(FSub(Get(p, v_start + i, 0), ref_v)))])

\* lines 129-132: minimize the use of actuators
ActuatorCost(p) ==
    FSum([j \in 1 .. 2 * (N - 1) |->
            LET i == (j - 1) \div 2
            IN  IF (j - 1) % 2 = 0
                THEN FMul(coeff_penalize_delta, Pow2(Get(p, delta_start + i, 0)))
                ELSE FMul(coeff_penalize_a, Pow2(Get(p, a_start + i, 0)))])

\* lines 135-138: minimize the value gap between sequential actuations
SmoothnessCost(p) ==
    FSum([j \in 1 .. 2 * (N - 2) |->
            LET i == (j - 1) \div 2
            IN  IF (j - 1) % 2 = 0
                THEN FMul(coeff_derivative_delta,
                          Pow2(FSub(Get(p, delta_start + i + 1, 0), Get(p, delta_start + i, 0))))
                ELSE FMul(coeff_derivative_a,
                          Pow2(FSub(Get(p, a_start + i + 1, 0), Get(p, a_start + i, 0))))])

\* fg[0]
Cost(p) == FAdd(FAdd(ReferenceCost(p), ActuatorCost(p)), SmoothnessCost(p))

\* the initial residuals written without the offset for the cost slot
InitialIdx_NoCostOffset(b) == b
\* the transition residuals written one slot early
TransitionIdx_OffByOne(b, i) == 1 + b + i

\* index of fg written by lines 150-155 for the block starting at b
InitialIdx(b) == 1 + b
\* index of fg written by lines 193-198 for the block starting at b, step i
TransitionIdx(b, i) == 2 + b + i

\* lines 150-155: a write is [idx: index of fg, lhs: index of the variable the
\* residual constrains, val: the residual]
InitialWrites(p) ==
    [b \in 1 .. 6 |-> [idx |-> InitialIdx(StateBlocks[b]),
                       lhs |-> StateBlocks[b],
                       val |-> Get(p, StateBlocks[b], 0)]]

\* lines 158-199, one iteration
TransitionWrites(c, p, i, junk) ==
    LET x1 == Get(p, x_start + i + 1, 0)
        y1 == Get(p, y_start + i + 1, 0)
        psi1 == Get(p, psi_start + i + 1, 0)
        v1 == Get(p, v_start + i + 1, 0)
        cte1 == Get(p, cte_start + i + 1, 0)
        epsi1 == Get(p, epsi_start + i + 1, 0)
        x0 == Get(p, x_start + i, 0)
        y0 == Get(p, y_start + i, 0)
        psi0 == Get(p, psi_start + i, 0)
        v0 == Get(p, v_start + i, 0)
        cte0 == Get(p, cte_start + i, 0)
        epsi0 == Get(p, epsi_start + i, 0)
        delta0 == Get(p, delta_start + i, 0)
        a0 == Get(p, a_start + i, 0)
        f0 == Poly3(c, x0, junk)
        psides0 == Atan(poly3_derivative(c, x0, junk))
    IN  << [idx |-> TransitionIdx(x_start, i), lhs |-> x_start + i + 1,
            val |-> FSub(x1, Pred_x(x0, psi0, v0))],
           [idx |-> TransitionIdx(y_start, i), lhs |-> y_start + i + 1,
            val |-> FSub(y1, Pred_y(y0, psi0, v0))],
           [idx |-> TransitionIdx(psi_start, i), lhs |-> psi_start + i + 1,
            val |-> FSub(psi1, Pred_psi(psi0, v0, delta0))],
           [idx |-> TransitionIdx(v_start, i), lhs |-> v_start + i + 1,
            val |-> FSub(v1, Pred_v(v0, a0))],
           [idx |-> TransitionIdx(cte_start, i), lhs |-> cte_start + i + 1,
            val |-> FSub(cte1, Pred_cte(f0, y0, v0, epsi0))],
           [idx |-> TransitionIdx(epsi_start, i), lhs |-> epsi_start + i + 1,
            val |-> FSub(epsi1, Pred_epsi(psi0, psides0, v0, delta0))] >>

\* lines 158-199: the writes of iterations 0 .. n-1, in program order
RECURSIVE TransitionLoop(_, _, _, _)
TransitionLoop(c, p, n, junk) ==
    IF n = 0 THEN <<>>
    ELSE TransitionLoop(c, p, n - 1, junk) \o TransitionWrites(c, p, n - 1, junk)

\* every write of one evaluation to fg[1..], in program order
ResidualWrites(c, p, junk) == InitialWrites(p) \o TransitionLoop(c, p, N - 1, junk)

\* the value left in fg[k] by a sequence of writes (the last write wins; a slot
\* never written keeps `junk`)
Stored(w, k, junk) ==
    LET js == {j \in 1 .. Len(w) : w[j].idx = k}
    IN  IF js = {} THEN junk
        ELSE w[CHOOSE j \in js : \A i \in js : i <= j].val

\* one evaluation: the point, fg[0], fg[1 .. n_constraints], and the write log
FG_eval(c, p, junk) ==
    LET w == ResidualWrites(c, p, junk)
    IN  [point  |-> p,
         cost   |-> Cost(p),
         g      |-> [k \in 1 .. n_constraints |-> Stored(w, k, 0)],
         writes |-> [j \in 1 .. Len(w) |-> <<w[j].idx, w[j].lhs>>]]

----------------------------------------------------------------------------
(* MPC::MPC(): lines 207-213.                                              *)

NoEval == [point |-> <<>>, cost |-> 0, g |-> <<>>, writes |-> <<>>]
NoSolution == [status |-> "none", x |-> <<>>]

Construct(cfg) ==
    /\ params = cfg
    /\ pc = "idle"
    /\ steering_delta_ = 0
    /\ a_ = 0
    /\ pred_path_x_ = [i \in 0 .. cfg.N - 2 |-> 0]
    /\ pred_path_y_ = [i \in 0 .. cfg.N - 2 |-> 0]
    /\ fresh = TRUE
    /\ state = <<>>
    /\ coeffs = <<>>
    /\ vars = <<>>
    /\ vars_lowerbound = <<>>
    /\ vars_upperbound = <<>>
    /\ constraints_lowerbound = <<>>
    /\ constraints_upperbound = <<>>
    /\ oob = {}
    /\ fg = NoEval
    /\ solution = NoSolution
    /\ result = <<>>
    /\ all_respected = TRUE

----------------------------------------------------------------------------
(* MPC::Solve, problem construction: lines 216-317.                        *)

\* lines 245-256: all zero, then the six block starts set to the state
InitialGuess(st) ==
    [i \in 0 .. n_vars - 1 |->
        IF i = epsi_start THEN st[6]
        ELSE IF i = cte_start THEN st[5]
        ELSE IF i = v_start THEN st[4]
        ELSE IF i = psi_start THEN st[3]
        ELSE IF i = y_start THEN st[2]
        ELSE IF i = x_start THEN st[1]
        ELSE 0]

\* the bound loops with the acceleration hold placed before the acceleration
\* limits, which then overwrite it
BoundLoops_HoldOverwritten(sd, acc) ==
    << [from |-> 0, to |-> delta_start - 1, lo |-> -LARGE, hi |-> LARGE],
       [from |-> delta_start, to |-> a_start - 1, lo |-> -max_delta, hi |-> max_delta],
       [from |-> delta_start, to |-> delta_start + num_states_in_latency - 1,
        lo |-> sd, hi |-> sd],
       [from |-> a_start, to |-> a_start + num_states_in_latency - 1,
        lo |-> acc, hi |-> acc],
       [from |-> a_start, to |-> n_vars - 1, lo |-> -max_a, hi |-> max_a] >>

\* the bound loops with the first loop running over the steering block too and
\* the steering limits left out
BoundLoops_NoSteeringLimit(sd, acc) ==
    << [from |-> 0, to |-> a_start - 1, lo |-> -LARGE, hi |-> LARGE],
       [from |-> delta_start, to |-> delta_start + num_states_in_latency - 1,
        lo |-> sd, hi |-> sd],
       [from |-> a_start, to |-> n_vars - 1, lo |-> -max_a, hi |-> max_a],
       [from |-> a_start, to |-> a_start + num_states_in_latency - 1,
        lo |-> acc, hi |-> acc] >>

\* lines 264-294: the five bound loops in program order; each writes
\* [lo, hi] to every index of from .. to
BoundLoops(sd, acc) ==
    << [from |-> 0, to |-> delta_start - 1, lo |-> -LARGE, hi |-> LARGE],
       [from |-> delta_start, to |-> a_start - 1, lo |-> -max_delta, hi |-> max_delta],
       [from |-> delta_start, to |-> delta_start + num_states_in_latency - 1,
        lo |-> sd, hi |-> sd],
       [from |-> a_start, to |-> n_vars - 1, lo |-> -max_a, hi |-> max_a],
       [from |-> a_start, to |-> a_start + num_states_in_latency - 1,
        lo |-> acc, hi |-> acc] >>

\* the loop whose write to index i is the last one (0: none)
RECURSIVE LastWriter(_, _)
LastWriter(loops, i) ==
    IF loops = <<>> THEN 0
    ELSE IF loops[Len(loops)].from <= i /\ i <= loops[Len(loops)].to THEN Len(loops)
    ELSE LastWriter(SubSeq(loops, 1, Len(loops) - 1), i)

\* vars_lowerbound / vars_upperbound after the loops (an index no loop wrote
\* keeps the allocation's 0)
LowerBounds(loops) ==
    [i \in 0 .. n_vars - 1 |->
        IF LastWriter(loops, i) = 0 THEN 0 ELSE loops[LastWriter(loops, i)].lo]
UpperBounds(loops) ==
    [i \in 0 .. n_vars - 1 |->
        IF LastWriter(loops, i) = 0 THEN 0 ELSE loops[LastWriter(loops, i)].hi]

\* indices past the end of the bound vectors that some loop writes
OutOfRangeWrites(loops) ==
    {i \in n_vars .. n_vars + 2 * num_states_in_latency : LastWriter(loops, i) # 0}

\* lines 299-317
ConstraintBounds(st) ==
    [i \in 0 .. n_constraints - 1 |->
        IF i = epsi_start THEN st[6]
        ELSE IF i = cte_start THEN st[5]
        ELSE IF i = v_start THEN st[4]
        ELSE IF i = psi_start THEN st[3]
        ELSE IF i = y_start THEN st[2]
        ELSE IF i = x_start THEN st[1]
        ELSE 0]

\* caller inputs <<state, coeffs>>: the trivial equilibrium, the two
\* end-to-end scenarios of the design (v = 40; cte = 1) on a straight road, a
\* state holding a non-finite value, and a coefficient vector one short
Inputs ==
    { << <<0, 0, 0, 0, 0, 0>>, <<0, 0, 0, 0>> >>,
      << <<0, 0, 0, 40 * FP, 0, 0>>, <<0, 0, 0, 0>> >>,
      << <<0, 0, 0, 0, FP, 0>>, <<0, 0, 0, 0>> >>,
      << <<0, 0, 0, NaN, 0, 0>>, <<0, 0, 0, 0>> >>,
      << <<0, 0, 0, 40 * FP, 0, 0>>, <<0, 0, 0>> >> }

\* a write past the end of a CppAD vector: the index assertion of a debug
\* build aborts, a release build writes into foreign memory and goes on
WriteOutcomes(loops) ==
    IF OutOfRangeWrites(loops) = {} THEN {"ok"} ELSE {"abort", "corrupt"}

SolveBegin ==
    /\ pc = "idle"
    /\ \E in \in Inputs :
        LET st == in[1]
            c == in[2]
            loops == BoundLoops(steering_delta_, a_)
        IN  \E outcome \in WriteOutcomes(loops) :
            /\ state' = st
            /\ coeffs' = c
            /\ vars' = InitialGuess(st)
            /\ vars_lowerbound' = LowerBounds(loops)
            /\ vars_upperbound' = UpperBounds(loops)
            /\ oob' = OutOfRangeWrites(loops)
            /\ constraints_lowerbound' = ConstraintBounds(st)
            /\ constraints_upperbound' = ConstraintBounds(st)
            /\ fg' = NoEval
            /\ pc' = IF outcome = "abort" THEN "aborted" ELSE "solving"
    /\ UNCHANGED <<params, steering_delta_, a_, pred_path_x_, pred_path_y_, fresh,
                   solution, result, all_respected>>

----------------------------------------------------------------------------
(* The external solver, CppAD::ipopt::solve: lines 339-344.  It evaluates  *)
(* fg_eval at points of its choosing and returns a status and a vector.    *)

Clamp(lo, hi, v) == IF v < lo THEN lo ELSE IF v > hi THEN hi ELSE v

\* the initial guess moved inside the variable bounds
Projected(p) ==
    [i \in DOMAIN p |-> IF p[i] = NaN THEN NaN
                        ELSE Clamp(vars_lowerbound[i], vars_upperbound[i], p[i])]

\* one step of the vehicle model from state tuple s under actuation (d, acc)
ModelStep(s, d, acc) ==
    << Pred_x(s[1], s[3], s[4]),
       Pred_y(s[2], s[3], s[4]),
       Pred_psi(s[3], s[4], d),
       Pred_v(s[4], acc),
       Pred_cte(Poly3(coeffs, s[1], 0), s[2], s[4], s[6]),
       Pred_epsi(s[3], Atan(poly3_derivative(coeffs, s[1], 0)), s[4], d) >>

\* the trajectory of N state tuples that starts at s0 and follows the plan
RECURSIVE Rollout(_, _, _)
Rollout(s0, plan, t) ==
    IF t = 0 THEN <<s0>>
    ELSE LET prev == Rollout(s0, plan, t - 1)
         IN  Append(prev, ModelStep(prev[t], plan[delta_start + t - 1],
                                    plan[a_start + t - 1]))

\* steering/acceleration ramps toward (d, acc), inside the bounds if clamped
ActuationPlan(d, acc, clamped) ==
    [i \in delta_start .. n_vars - 1 |->
        LET raw == IF i < a_start THEN d + (i - delta_start) * RampStep
                   ELSE acc - (i - a_start) * RampStep
        IN  IF clamped THEN Clamp(vars_lowerbound[i], vars_upperbound[i], raw) ELSE raw]

\* the decision vector holding a trajectory and a plan
Flatten(traj, plan) ==
    [i \in 0 .. n_vars - 1 |->
        IF i < delta_start THEN traj[(i % N) + 1][(i \div N) + 1] ELSE plan[i]]

\* <<steering, acceleration>> the returned plans head for
Targets == { <<-60, 150>>, <<30, -30>> }

\* the point reached from state tuple s0 under the plan toward target t
Trajectory(s0, t, clamped) ==
    LET plan == ActuationPlan(t[1], t[2], clamped)
        traj == Rollout(s0, plan, N - 1)
    IN  Flatten(traj, plan)

\* what the solver may hand back: a converged point; the same point with the
\* time budget spent; the projected initial guess (no progress); a point
\* that left the bounds and the pinned initial state
SolverResults ==
    LET off == [b \in 1 .. 6 |-> FAdd(state[b], 1)]
        good == {Trajectory(state, t, TRUE) : t \in Targets}
    IN  { [status |-> st, x |-> xx] :
            st \in {"success", "maximum_cpu_time_exceeded"}, xx \in good }
        \cup { [status |-> "maxiter_exceeded", x |-> Projected(vars)] }
        \cup { [status |-> "restoration_failure", x |-> Trajectory(off, t, FALSE)] :
                t \in Targets }

\* x respects the variable bounds handed to the solver
RespectsBounds(x) ==
    \A i \in DOMAIN x :
        x[i] # NaN /\ vars_lowerbound[i] <= x[i] /\ x[i] <= vars_upperbound[i]

\* points at which the solver evaluates fg_eval
EvalPoints == {vars, Projected(vars)}

\* coeffs[3] of a short vector: the stale double found past its end
StaleValues == {0, 7}
CoeffJunk == IF Len(coeffs) < 4 THEN StaleValues ELSE {0}

SolverEvaluate ==
    /\ pc = "solving"
    /\ \E p \in EvalPoints, junk \in CoeffJunk :
        fg' = FG_eval(coeffs, p, junk)
    /\ UNCHANGED <<params, pc, steering_delta_, a_, pred_path_x_, pred_path_y_, fresh,
                   state, coeffs, vars, vars_lowerbound, vars_upperbound,
                   constraints_lowerbound, constraints_upperbound, oob,
                   solution, result, all_respected>>

\* Eigen's index assertion on coeffs[3] (line 180) in a build that keeps it
EvaluateAbort ==
    /\ pc = "solving"
    /\ Len(coeffs) < 4
    /\ pc' = "aborted"
    /\ UNCHANGED <<params, steering_delta_, a_, pred_path_x_, pred_path_y_, fresh,
                   state, coeffs, vars, vars_lowerbound, vars_upperbound,
                   constraints_lowerbound, constraints_upperbound, oob, fg,
                   solution, result, all_respected>>

----------------------------------------------------------------------------
(* MPC::Solve, extraction and state retention: lines 346-379.              *)

\* solution.x[k]; a read past the end yields `junk`
SolGet(sol, k, junk) == IF k \in DOMAIN sol.x THEN sol.x[k] ELSE junk

\* the retained steering updated only when the solver reports success
ExtractSteering_OnlyOnSuccess(sol, junk) ==
    IF sol.status = "success"
    THEN SolGet(sol, delta_start + num_states_in_latency, junk)
    ELSE steering_delta_

\* lines 358-359
ExtractSteering(sol, junk) == SolGet(sol, delta_start + num_states_in_latency, junk)
ExtractAcceleration(sol, junk) == SolGet(sol, a_start + num_states_in_latency, junk)

\* lines 371-374
ExtractPath(sol, b) == [i \in 0 .. N - 2 |-> SolGet(sol, b + i + 1, 0)]

\* the returned actuation taken at the latency index instead of index 1
Returned_AtLatency(sol, junk) ==
    << SolGet(sol, x_start + 1, junk), SolGet(sol, y_start + 1, junk),
       SolGet(sol, psi_start + 1, junk), SolGet(sol, v_start + 1, junk),
       SolGet(sol, cte_start + 1, junk), SolGet(sol, epsi_start + 1, junk),
       SolGet(sol, delta_start + num_states_in_latency, junk),
       SolGet(sol, a_start + num_states_in_latency, junk) >>

\* lines 376-379
Returned(sol, junk) ==
    << SolGet(sol, x_start + 1, junk), SolGet(sol, y_start + 1, junk),
       SolGet(sol, psi_start + 1, junk), SolGet(sol, v_start + 1, junk),
       SolGet(sol, cte_start + 1, junk), SolGet(sol, epsi_start + 1, junk),
       SolGet(sol, delta_start + 1, junk), SolGet(sol, a_start + 1, junk) >>

\* indices of solution.x that lines 358-379 read
ExtractionReads ==
    {delta_start + num_states_in_latency, a_start + num_states_in_latency}
    \cup {delta_start + 1, a_start + 1}
    \cup {b + 1 : b \in {StateBlocks[k] : k \in 1 .. 6}}
    \cup {x_start + i : i \in 1 .. N - 1} \cup {y_start + i : i \in 1 .. N - 1}

\* a read past the end of solution.x: the index assertion of a debug build
\* aborts, a release build reads a stale double and goes on
ReadOutcomes ==
    IF \A k \in ExtractionReads : k < n_vars THEN {<<"ok", 0>>}
    ELSE {<<"abort", 0>>} \cup {<<"stale", j>> : j \in StaleValues}

SolveFinish ==
    /\ pc = "solving"
    /\ \E sol \in SolverResults, outcome \in ReadOutcomes :
        LET junk == outcome[2]
        IN  /\ solution' = sol
            /\ steering_delta_' = ExtractSteering(sol, junk)
            /\ a_' = ExtractAcceleration(sol, junk)
            /\ pred_path_x_' = ExtractPath(sol, x_start)
            /\ pred_path_y_' = ExtractPath(sol, y_start)
            /\ result' = IF outcome[1] = "abort" THEN <<>> ELSE Returned(sol, junk)
            /\ all_respected' = (all_respected /\ RespectsBounds(sol.x))
            /\ pc' = IF outcome[1] = "abort" THEN "aborted" ELSE "idle"
    /\ fresh' = FALSE
    /\ UNCHANGED <<params, state, coeffs, vars, vars_lowerbound, vars_upperbound,
                   constraints_lowerbound, constraints_upperbound, oob, fg>>

----------------------------------------------------------------------------
(* Specifications.                                                         *)

\* the program as built: profile MPC_PARAMS_72MPH (line 8)
Init == Construct([N |-> N_72MPH, dt |-> dt_72MPH])

Next ==
    \/ SolveBegin
    \/ SolverEvaluate
    \/ EvaluateAbort
    \/ SolveFinish

Spec == Init /\ [][Next]_vars_all

\* every configuration the two constexpr lines 15-16 can be edited to, within
\* the bounds: horizons 2 .. MaxN, timesteps of 0.05 and 0.1 seconds
DtChoices == {5, 10}
Configs == {[N |-> n, dt |-> d] : n \in 2 .. MaxN, d \in DtChoices}

InitCfg == \E cfg \in Configs : Construct(cfg)

SpecCfg == InitCfg /\ [][Next]_vars_all

----------------------------------------------------------------------------
(* Index uses: which index the code uses to address which quantity.        *)

BlockNames == <<"x", "y", "psi", "v", "cte", "epsi", "delta", "a">>
BlockStart ==
    [b \in {BlockNames[k] : k \in 1 .. 8} |->
        CASE b = "x" -> x_start [] b = "y" -> y_start [] b = "psi" -> psi_start
          [] b = "v" -> v_start [] b = "cte" -> cte_start [] b = "epsi" -> epsi_start
          [] b = "delta" -> delta_start [] b = "a" -> a_start]
BlockLen == [b \in DOMAIN BlockStart |-> IF b \in {"delta", "a"} THEN N - 1 ELSE N]
BlockRange(b) == BlockStart[b] .. BlockStart[b] + BlockLen[b] - 1
StateNames == {"x", "y", "psi", "v", "cte", "epsi"}

\* lines 122-138
CostUses ==
    UNION { { <<"cte", cte_start + i>>, <<"epsi", epsi_start + i>>, <<"v", v_start + i>> } :
            i \in 0 .. N - 1 }
    \cup UNION { { <<"delta", delta_start + i>>, <<"a", a_start + i>> } : i \in 0 .. N - 2 }
    \cup UNION { { <<"delta", delta_start + i + 1>>, <<"delta", delta_start + i>>,
                   <<"a", a_start + i + 1>>, <<"a", a_start + i>> } : i \in 0 .. N - 3 }

\* lines 160-177
TransitionUses ==
    UNION { { <<b, BlockStart[b] + i + 1>> : b \in StateNames }
            \cup { <<b, BlockStart[b] + i>> : b \in StateNames }
            \cup { <<"delta", delta_start + i>>, <<"a", a_start + i>> } : i \in 0 .. N - 2 }

\* lines 251-256 (initial guess), 372-373 (predicted path), 376-379 (result)
SolveUses ==
    { <<b, BlockStart[b]>> : b \in StateNames }
    \cup UNION { { <<"x", x_start + i>>, <<"y", y_start + i>> } : i \in 1 .. N - 1 }
    \cup { <<b, BlockStart[b] + 1>> : b \in DOMAIN BlockStart }

IndexUses == CostUses \cup TransitionUses \cup SolveUses

----------------------------------------------------------------------------
(* Properties.                                                             *)

L == num_states_in_latency

\* a <= b on doubles (false as soon as one side is not a number)
Leq(a, b) == a # NaN /\ b # NaN /\ a <= b

\* x satisfies the constraint bounds handed to the solver
SatisfiesConstraints(x, junk) ==
    LET e == FG_eval(coeffs, x, junk)
    IN  \A k \in 0 .. n_constraints - 1 :
            /\ Leq(constraints_lowerbound[k], e.g[k + 1])
            /\ Leq(e.g[k + 1], constraints_upperbound[k])

Returned_ == pc = "idle" /\ ~fresh

\* C1: in every Solve the lower and upper bounds of the first
\* num_states_in_latency steering and acceleration slots equal the retained
\* actuation on entry, which is 0 on a new controller and otherwise the pair
\* the preceding Solve extracted at index num_states_in_latency; a result
\* that respects the bounds has those slots equal to it.
C1_LatencyHold ==
    /\ pc = "solving" =>
        LET held_delta == IF fresh THEN 0 ELSE solution.x[delta_start + L]
            held_a == IF fresh THEN 0 ELSE solution.x[a_start + L]
        IN  /\ steering_delta_ = held_delta
            /\ a_ = held_a
            /\ \A i \in 0 .. L - 1 :
                /\ vars_lowerbound[delta_start + i] = held_delta
                /\ vars_upperbound[delta_start + i] = held_delta
                /\ vars_lowerbound[a_start + i] = held_a
                /\ vars_upperbound[a_start + i] = held_a
    /\ (Returned_ /\ RespectsBounds(solution.x)) =>
        \A i \in 0 .. L - 1 :
            /\ solution.x[delta_start + i] = vars_lowerbound[delta_start + i]
            /\ solution.x[a_start + i] = vars_lowerbound[a_start + i]

\* a second Solve is under way with a nonzero retained actuation
C1_Witness ==
    pc = "solving" /\ ~fresh /\ steering_delta_ # 0 /\ a_ # 0
    /\ vars_lowerbound[delta_start] = steering_delta_

\* C2 as stated: the delta and a elements of the returned vector are the
\* solved entries at index num_states_in_latency, i.e. the retained actuation
\* stored by the same call.
C2_ReturnedIsCompensated ==
    Returned_ =>
        /\ result[7] = solution.x[delta_start + L] /\ result[7] = steering_delta_
        /\ result[8] = solution.x[a_start + L] /\ result[8] = a_

\* C2 amended: the delta and a elements of the returned vector are the solved
\* entries at index 1; index 1 is a latency-held slot, so with a result that
\* respects the bounds they equal the actuation retained on entry to the call.
C2_ReturnedIsStepOne ==
    Returned_ =>
        /\ result[7] = solution.x[delta_start + 1]
        /\ result[8] = solution.x[a_start + 1]
        /\ 1 < L
        /\ RespectsBounds(solution.x) =>
            /\ result[7] = vars_lowerbound[delta_start + 1]
            /\ result[8] = vars_lowerbound[a_start + 1]

\* a Solve returned an actuation that differs from the one it retained
C2_Witness ==
    Returned_ /\ RespectsBounds(solution.x)
    /\ result[7] # steering_delta_ /\ result[8] # a_

\* C3: the constraint bounds are 0 except at the six block starts, where both
\* equal the input state scalar; the residual written for those six
\* constraints is the timestep-0 variable itself; so a solved vector that
\* satisfies the constraint bounds has the input state at timestep 0.
C3_PinnedInitialState ==
    /\ pc = "solving" =>
        /\ DOMAIN constraints_lowerbound = 0 .. 6 * N - 1
        /\ DOMAIN constraints_upperbound = 0 .. 6 * N - 1
        /\ \A k \in 0 .. 6 * N - 1 :
            IF k % N = 0
            THEN /\ constraints_lowerbound[k] = state[(k \div N) + 1]
                 /\ constraints_upperbound[k] = state[(k \div N) + 1]
            ELSE /\ constraints_lowerbound[k] = 0
                 /\ constraints_upperbound[k] = 0
    /\ fg # NoEval =>
        \A b \in 0 .. 5 : fg.g[1 + b * N] = fg.point[b * N]
    /\ Returned_ =>
        \A junk \in CoeffJunk :
            SatisfiesConstraints(solution.x, junk) =>
                \A b \in 0 .. 5 : solution.x[b * N] = state[b + 1]

\* a Solve on a moving vehicle returned a vector satisfying the constraints
C3_Witness ==
    Returned_ /\ state[4] = 40 * FP /\ Len(coeffs) = 4
    /\ SatisfiesConstraints(solution.x, 0)
    /\ solution.x[v_start] = 40 * FP

\* C4: when the solver reports a status other than success, Solve performs
\* the same extraction as on success: the retained actuation is overwritten
\* with the result's entries at index num_states_in_latency, the predicted
\* path with the x/y entries 1 .. N-1, and the 8-element result is returned.
C4_BestEffortExtraction ==
    Returned_ =>
        /\ steering_delta_ = solution.x[delta_start + L]
        /\ a_ = solution.x[a_start + L]
        /\ DOMAIN pred_path_x_ = 0 .. N - 2
        /\ DOMAIN pred_path_y_ = 0 .. N - 2
        /\ \A i \in 1 .. N - 1 :
            /\ pred_path_x_[i - 1] = solution.x[i]
            /\ pred_path_y_[i - 1] = solution.x[N + i]
        /\ Len(result) = 8
        /\ \A b \in 0 .. 5 : result[b + 1] = solution.x[b * N + 1]

\* a Solve whose solver failed has returned, with a new retained actuation
C4_Witness ==
    Returned_ /\ solution.status # "success"
    /\ steering_delta_ # 0 /\ a_ # 0 /\ pred_path_x_[0] # 0

\* C5 as stated: a coefficient vector whose length is not 4, or a state with
\* a non-finite value, is rejected before the problem is built: the solver is
\* never invoked with it and the retained state is never overwritten from it.
C5_MalformedRejected ==
    (pc = "solving" \/ Returned_) =>
        /\ Len(coeffs) = 4
        /\ \A k \in 1 .. 6 : state[k] # NaN

\* C6 as stated: a configuration with num_states_in_latency >= N is caught
\* at construction: no Solve runs with it and no bound is written past the
\* end of the bound vectors.
C6_ConfigurationChecked ==
    L >= N => (pc = "idle" /\ fresh /\ oob = {})

\* the solver evaluated the all-zero decision vector for the all-zero state
\* and the all-zero polynomial on a new controller
AtTrivialEquilibrium ==
    /\ fg # NoEval
    /\ fresh
    /\ state = <<0, 0, 0, 0, 0, 0>>
    /\ coeffs = <<0, 0, 0, 0>>
    /\ \A i \in DOMAIN fg.point : fg.point[i] = 0

\* the evaluated point is feasible: every residual is inside its constraint
\* bounds and every variable inside its variable bounds
EvaluatedPointFeasible ==
    /\ \A k \in 0 .. n_constraints - 1 :
        /\ Leq(constraints_lowerbound[k], fg.g[k + 1])
        /\ Leq(fg.g[k + 1], constraints_upperbound[k])
    /\ RespectsBounds(fg.point)

\* C7 as stated: for the all-zero state, the all-zero polynomial and a new
\* controller, the all-zero decision vector is feasible with cost 0.
C7_ZeroVectorCostsNothing ==
    AtTrivialEquilibrium => (EvaluatedPointFeasible /\ fg.cost = 0)

\* C7 amended: there the all-zero decision vector is feasible with every
\* residual 0, and its cost is N * coeff_v * ref_v^2 (56250 as built), the
\* penalty for standing still at a reference speed of ref_v.
C7_ZeroVectorFeasibleAtSpeedCost ==
    AtTrivialEquilibrium =>
        /\ EvaluatedPointFeasible
        /\ \A k \in 1 .. n_constraints : fg.g[k] = 0
        /\ fg.cost = N * ((ref_v * ref_v) \div FP)
        /\ fg.cost > 0

C7_Witness == AtTrivialEquilibrium /\ pc = "solving"

\* the eight blocks are pairwise disjoint, cover 0 .. n_vars-1 with
\* n_vars = 6N + 2(N-1), and every index the code uses for a quantity lies
\* in that quantity's block
LayoutSound ==
    /\ n_vars = 6 * N + 2 * (N - 1)
    /\ \A b1, b2 \in DOMAIN BlockStart :
        b1 # b2 => BlockRange(b1) \cap BlockRange(b2) = {}
    /\ UNION {BlockRange(b) : b \in DOMAIN BlockStart} = 0 .. n_vars - 1
    /\ \A u \in IndexUses : u[2] \in BlockRange(u[1])

\* C8 as stated: the layout is sound for every horizon N >= 2.
C8_LayoutFromTwo == N >= 2 => LayoutSound

\* C8 amended: the layout is sound for every horizon N >= 3 (at N = 2 the
\* actuation blocks hold one slot and the returned delta and a, read at
\* index 1, fall outside them).
C8_LayoutFromThree == N >= 3 => LayoutSound

C8_Witness == N >= 3 /\ Returned_ /\ fg # NoEval

\* C9: one evaluation of FG_eval writes each residual slot fg[1 .. 6N] exactly
\* once and none outside; fg[1+b] holds the initial residual of block b and
\* fg[2+b+i] the residual constraining timestep i+1 of block b, so only the
\* six initial residuals meet a state-pinned constraint bound and every
\* transition residual meets a zero one.
C9_ResidualCoverage ==
    fg # NoEval =>
        /\ Len(fg.writes) = 6 * N
        /\ \A j \in 1 .. Len(fg.writes) : fg.writes[j][1] \in 1 .. 6 * N
        /\ \A k \in 1 .. 6 * N :
            Cardinality({j \in 1 .. Len(fg.writes) : fg.writes[j][1] = k}) = 1
        /\ \A j \in 1 .. Len(fg.writes) :
            LET k == fg.writes[j][1]
                v == fg.writes[j][2]
            IN  /\ v = k - 1
                /\ IF j <= 6 THEN v % N = 0 /\ fg.g[k] = fg.point[v]
                   ELSE /\ v % N # 0
                        /\ constraints_lowerbound[k - 1] = 0
                        /\ constraints_upperbound[k - 1] = 0
        /\ \A k \in 0 .. 6 * N - 1 :
            constraints_lowerbound[k] # 0 =>
                \E j \in 1 .. 6 : fg.writes[j][1] = k + 1

\* FG_eval was evaluated during a Solve whose state pins a nonzero bound
C9_Witness ==
    fg # NoEval /\ constraints_lowerbound[v_start] = 40 * FP /\ Len(fg.writes) > 6

\* C10: while every solver result respects the variable bounds it was given,
\* the retained steering stays in [-max_delta, max_delta] and the retained
\* acceleration in [-1, 1]; so the hold bounds lie inside the physical limits
\* and every variable bound pair has lower <= upper.
C10_RetainedWithinLimits ==
    all_respected =>
        /\ -max_delta <= steering_delta_ /\ steering_delta_ <= max_delta
        /\ -max_a <= a_ /\ a_ <= max_a
        /\ pc = "solving" =>
            /\ \A i \in 0 .. n_vars - 1 : vars_lowerbound[i] <= vars_upperbound[i]
            /\ \A i \in 0 .. L - 1 :
                /\ -max_delta <= vars_lowerbound[delta_start + i]
                /\ vars_upperbound[delta_start + i] <= max_delta
                /\ -max_a <= vars_lowerbound[a_start + i]
                /\ vars_upperbound[a_start + i] <= max_a

\* a later Solve is under way after results that all respected their bounds
\* and left a retained actuation at the physical limits
C10_Witness ==
    all_respected /\ ~fresh /\ pc = "solving"
    /\ steering_delta_ = -max_delta /\ a_ = max_a

====
